---- MODULE Spec2Model ----
(***************************************************************************)
(* A model of ascii-chart-formatter: fix_ascii_art and the functions it    *)
(* is built from (src/src/ascii_chart_formatter/formatter.py, chars.py).   *)
(*                                                                         *)
(* A character is a one-character string, a line is a sequence of          *)
(* characters and a text is a sequence of characters in which NL separates *)
(* the lines.  Columns and line indexes are 0-based, as in the source;     *)
(* At and Slice translate them to TLA+'s 1-based sequences.                *)
(* A glyph outside ASCII is written by its code point ("U250C" is the      *)
(* box-drawing corner U+250C); WIDE stands for a character whose East      *)
(* Asian width is W or F.                                                  *)
(***************************************************************************)
EXTENDS Integers, Sequences, FiniteSets, TLC

VARIABLES
    text,       \* the document: the argument of the next call, the result of the last
    prev,       \* the argument of the last call of fix_ascii_art
    normalize,  \* the flag normalize of the calls
    markdown,   \* the flag markdown of the calls
    calls,      \* how many times fix_ascii_art was applied
    raised,     \* whether a call read an index that does not exist (IndexError)
    unit        \* a call of one of the functions fix_ascii_art is built from:
                \* its name and arguments and, once it returned, its result

vars == <<text, prev, normalize, markdown, calls, raised, unit>>

\* no function is called on its own
NoUnit == [fn |-> "none"]

----------------------------------------------------------------------------
(* Characters                                                              *)

NL == "\n"
TAB == "\t"
SP == " "
\* U+00A0, a no-break space: whitespace to str.rstrip, one column wide
NBSP == "U00A0"
WIDE == "WIDE"
BACKTICK == "U0060"
TILDE == "~"
None == -1

\* a corner table that holds the ASCII vertical bar
CornerCharsWithBar ==
    {"+", "|", "U250C", "U2510", "U2514", "U2518", "U251C", "U2524", "U252C",
     "U2534", "U253C", "U2554", "U2557", "U255A", "U255D", "U256D", "U256E",
     "U2570", "U256F", "U250F", "U2513", "U2517", "U251B"}

\* chars.py: CORNER_CHARS
CORNER_CHARS ==
    {"+", "U250C", "U2510", "U2514", "U2518", "U251C", "U2524", "U252C",
     "U2534", "U253C", "U2554", "U2557", "U255A", "U255D", "U256D", "U256E",
     "U2570", "U256F", "U250F", "U2513", "U2517", "U251B"}

\* chars.py: HORIZONTAL_FILL_CHARS
HORIZONTAL_FILL_CHARS ==
    {"-", "U2500", "U2501", "U2550", "U2504", "U2505", "U2508", "U2509"}

\* chars.py: VERTICAL_BORDER_CHARS
VERTICAL_BORDER_CHARS ==
    {"|", "U2502", "U2551", "U2503", "U2506", "U2507", "U250A", "U250B"}

\* chars.py: is_vertical_border_char
is_vertical_border_char(ch) == ch \in VERTICAL_BORDER_CHARS

\* chars.py: NORMALIZATION_MAP, the replacement of one character
NORMALIZATION_MAP(ch) ==
    CASE ch = "U2192" -> <<"-", ">">>
      [] ch = "U2190" -> <<"<", "-">>
      [] ch = "U2191" -> <<"^">>
      [] ch = "U2193" -> <<"v">>
      [] ch \in {"U250C", "U2510", "U2514", "U2518", "U251C", "U2524",
                 "U252C", "U2534", "U253C", "U2554", "U2557", "U255A",
                 "U255D", "U256D", "U256E", "U2570", "U256F", "U250F",
                 "U2513", "U2517", "U251B"} -> <<"+">>
      [] ch \in {"U2500", "U2501", "U2504", "U2505", "U2508", "U2509"} -> <<"-">>
      [] ch = "U2550" -> <<"=">>
      [] ch \in {"U2502", "U2551", "U2503", "U2506", "U2507", "U250A",
                 "U250B"} -> <<"|">>
      [] OTHER -> <<ch>>

----------------------------------------------------------------------------
(* Python's sequences                                                      *)

Min(a, b) == IF a < b THEN a ELSE b
Max(a, b) == IF a > b THEN a ELSE b
Abs(a) == IF a < 0 THEN 0 - a ELSE a

\* whether s[i] raises IndexError (a negative index counts from the end)
IndexError(s, i) == i >= Len(s) \/ i < 0 - Len(s)

\* what a read of an index that does not exist yields in this model: a
\* character of no class (the read is recorded by the ...Raises predicates)
NoChar == "IndexError"

\* s[i]
At(s, i) ==
    IF IndexError(s, i) THEN NoChar
    ELSE IF i >= 0 THEN s[i + 1] ELSE s[Len(s) + i + 1]

\* s[a:b] for a, b >= 0
Slice(s, a, b) == SubSeq(s, Min(a, Len(s)) + 1, Min(b, Len(s)))

\* ch * n
Repeat(ch, n) == [k \in 1..n |-> ch]

----------------------------------------------------------------------------
(* Border Scanner: _find_border_segments, _find_borders                    *)

\* dataclass BorderInfo
BorderInfo(line_index, left_col, right_col, width) ==
    [line_index |-> line_index, left_col |-> left_col,
     right_col |-> right_col, width |-> width]

\* an inner loop that ends the segment at every corner, T-junction or not
RECURSIVE ScanRunNoJunction(_, _)
ScanRunNoJunction(line, j) ==
    IF j >= Len(line) THEN j
    ELSE IF At(line, j) \in HORIZONTAL_FILL_CHARS THEN ScanRunNoJunction(line, j + 1)
    ELSE IF At(line, j) \in CORNER_CHARS THEN j + 1
    ELSE j

\* the inner while loop of _find_border_segments: the value of j when it ends
RECURSIVE ScanRun(_, _)
ScanRun(line, j) ==
    IF j >= Len(line) THEN j
    ELSE IF At(line, j) \in HORIZONTAL_FILL_CHARS THEN ScanRun(line, j + 1)
    ELSE IF At(line, j) \in CORNER_CHARS
         THEN IF j + 1 < Len(line) /\ At(line, j + 1) \in HORIZONTAL_FILL_CHARS
              THEN ScanRun(line, j + 1)    \* T-junction: continue scanning
              ELSE j + 1                   \* true right corner
    ELSE j

\* an acceptance test that takes two adjacent corners for a segment
SegmentAcceptedShort(line, left_col, j) ==
    (j - 1) > left_col /\ At(line, j - 1) \in CORNER_CHARS

\* whether the run from left_col whose scan ended at j is a segment
SegmentAccepted(line, left_col, j) ==
    (j - 1) > left_col + 1 /\ At(line, j - 1) \in CORNER_CHARS

\* the outer while loop of _find_border_segments, from position i
RECURSIVE ScanFrom(_, _, _)
ScanFrom(line, line_index, i) ==
    IF i >= Len(line) THEN <<>>
    ELSE IF At(line, i) \notin CORNER_CHARS THEN ScanFrom(line, line_index, i + 1)
    ELSE LET j == ScanRun(line, i + 1)
             right_col == j - 1
         IN  IF SegmentAccepted(line, i, j)
             THEN <<BorderInfo(line_index, i, right_col, right_col - i + 1)>>
                  \o ScanFrom(line, line_index, right_col)
             ELSE ScanFrom(line, line_index, i + 1)

_find_border_segments(line, line_index) == ScanFrom(line, line_index, 0)

RECURSIVE FindBordersFrom(_, _)
FindBordersFrom(lines, i) ==
    IF i >= Len(lines) THEN <<>>
    ELSE _find_border_segments(At(lines, i), i) \o FindBordersFrom(lines, i + 1)

_find_borders(lines) == FindBordersFrom(lines, 0)

----------------------------------------------------------------------------
(* Box Matcher: _match_boxes                                               *)
(* A BoxRegion holds references to two BorderInfo objects; here it holds   *)
(* their indexes (1-based) in the sorted border list, so that an update of *)
(* a border is seen by every box that shares it.                           *)

BoxRegion(top, bottom) == [top |-> top, bottom |-> bottom]

\* a sort key that puts the lower lines first
BorderKeyReversed(a, b) ==
    \/ a.line_index > b.line_index
    \/ a.line_index = b.line_index /\ a.left_col < b.left_col

\* the key of sorted(borders, key=lambda b: (b.line_index, b.left_col))
BorderKeyLess(a, b) ==
    \/ a.line_index < b.line_index
    \/ a.line_index = b.line_index /\ a.left_col < b.left_col

\* stable insertion of b into a list sorted by the key
RECURSIVE InsertBorder(_, _)
InsertBorder(sorted, b) ==
    IF sorted = <<>> THEN <<b>>
    ELSE IF BorderKeyLess(b, sorted[Len(sorted)])
         THEN InsertBorder(SubSeq(sorted, 1, Len(sorted) - 1), b)
              \o <<sorted[Len(sorted)]>>
         ELSE Append(sorted, b)

RECURSIVE SortBorders(_)
SortBorders(borders) ==
    IF borders = <<>> THEN <<>>
    ELSE InsertBorder(SortBorders(SubSeq(borders, 1, Len(borders) - 1)),
                      borders[Len(borders)])

\* next_line >= len(lines) (formatter.py:124)
NextLineMissing(lines, top) == top.line_index + 1 >= Len(lines)

\* a matcher that does not check the length of the next line
ColumnMissingUnchecked(lines, top) == FALSE

\* top.left_col >= len(lines[next_line]) (formatter.py:125)
ColumnMissing(lines, top) == top.left_col >= Len(At(lines, top.line_index + 1))

\* a matcher that reuses every bottom border as a top
SharedTopNeverSkipped(lines, top) == FALSE

\* the condition under which a border used as a bottom is skipped as a top
\* (formatter.py:123-127)
SharedTopSkipped(lines, top) ==
    \/ NextLineMissing(lines, top)
    \/ ColumnMissing(lines, top)
    \/ ~ is_vertical_border_char(At(At(lines, top.line_index + 1), top.left_col))

\* the condition reaches lines[next_line][top.left_col] and the index does
\* not exist
SharedTopRaises(lines, top) ==
    /\ ~ NextLineMissing(lines, top)
    /\ ~ ColumnMissing(lines, top)
    /\ IndexError(At(lines, top.line_index + 1), top.left_col)

\* an inner loop that takes the last matching border instead of the first
FarthestBottom(sb, i, j, used_as_bottom) ==
    LET matching == {k \in j..Len(sb) :
                        /\ k \notin used_as_bottom
                        /\ sb[k].left_col = sb[i].left_col
                        /\ sb[k].width = sb[i].width}
    IN  IF matching = {} THEN None
        ELSE CHOOSE k \in matching : \A m \in matching : m <= k

\* the inner for loop: the first j >= from, not used as a bottom, that matches
RECURSIVE NearestBottom(_, _, _, _)
NearestBottom(sb, i, j, used_as_bottom) ==
    IF j > Len(sb) THEN None
    ELSE IF j \in used_as_bottom THEN NearestBottom(sb, i, j + 1, used_as_bottom)
    ELSE IF sb[j].left_col = sb[i].left_col /\ sb[j].width = sb[i].width
         THEN j
    ELSE NearestBottom(sb, i, j + 1, used_as_bottom)

\* the outer for loop, from border i (1-based), with the sets and the list so
\* far; err records a read of an index that does not exist
RECURSIVE MatchFrom(_, _, _, _, _, _, _)
MatchFrom(sb, lines, i, used_as_top, used_as_bottom, boxes, err) ==
    IF i > Len(sb) THEN [boxes |-> boxes, raised |-> err]
    ELSE IF i \in used_as_top
         THEN MatchFrom(sb, lines, i + 1, used_as_top, used_as_bottom, boxes, err)
    ELSE LET e == err \/ (i \in used_as_bottom /\ SharedTopRaises(lines, sb[i]))
             j == NearestBottom(sb, i, i + 1, used_as_bottom)
         IN  IF i \in used_as_bottom /\ SharedTopSkipped(lines, sb[i])
             THEN MatchFrom(sb, lines, i + 1, used_as_top, used_as_bottom, boxes, e)
             ELSE IF j = None
             THEN MatchFrom(sb, lines, i + 1, used_as_top, used_as_bottom, boxes, e)
             ELSE MatchFrom(sb, lines, i + 1, used_as_top \cup {i},
                            used_as_bottom \cup {j},
                            Append(boxes, BoxRegion(i, j)), e)

\* _match_boxes(borders, lines): the boxes, over the sorted list
SortedBorders(lines) == SortBorders(_find_borders(lines))

_match_boxes(sb, lines) == MatchFrom(sb, lines, 1, {}, {}, <<>>, FALSE).boxes

MatchBoxesRaises(sb, lines) == MatchFrom(sb, lines, 1, {}, {}, <<>>, FALSE).raised

----------------------------------------------------------------------------
(* Content Aligner: _display_width, _pad_or_trim_to_width,                 *)
(* _fix_content_line                                                       *)

\* unicodedata.east_asian_width(ch) in ("W", "F")
IsWide(ch) == ch = WIDE

RECURSIVE _display_width(_)
_display_width(s) ==
    IF s = <<>> THEN 0
    ELSE (IF IsWide(Head(s)) THEN 2 ELSE 1) + _display_width(Tail(s))

\* the characters of the model's alphabet for which str.isspace() is true
Whitespace == {SP, TAB, NL, NBSP}

\* str.rstrip(): strips every trailing whitespace character
RECURSIVE rstrip(_)
rstrip(s) ==
    IF s # <<>> /\ s[Len(s)] \in Whitespace
    THEN rstrip(SubSeq(s, 1, Len(s) - 1))
    ELSE s

\* str.lstrip()
RECURSIVE lstrip(_)
lstrip(s) ==
    IF s # <<>> /\ Head(s) \in Whitespace THEN lstrip(Tail(s)) ELSE s

\* a trimming loop that does not stop at the target width
RECURSIVE TrimAll(_, _, _)
TrimAll(s, current, target) ==
    IF s # <<>> /\ s[Len(s)] = SP
    THEN TrimAll(SubSeq(s, 1, Len(s) - 1), current - 1, target)
    ELSE s

\* the while loop of _pad_or_trim_to_width
RECURSIVE TrimTo(_, _, _)
TrimTo(s, current, target) ==
    IF current > target /\ s # <<>> /\ s[Len(s)] = SP
    THEN TrimTo(SubSeq(s, 1, Len(s) - 1), current - 1, target)
    ELSE s

\* a fit that pads a short interior and never trims a long one
PadOnly(s, target) ==
    IF _display_width(s) < target
    THEN s \o Repeat(SP, target - _display_width(s))
    ELSE s

_pad_or_trim_to_width(s, target) ==
    LET current == _display_width(s)
    IN  IF current < target THEN s \o Repeat(SP, target - current)
        ELSE IF current > target THEN TrimTo(s, current, target)
        ELSE s

\* for idx in range(lo, hi): the first idx whose character is a vertical border
RECURSIVE FirstBorderUp(_, _, _)
FirstBorderUp(line, idx, hi) ==
    IF idx >= hi THEN None
    ELSE IF is_vertical_border_char(At(line, idx)) THEN idx
    ELSE FirstBorderUp(line, idx + 1, hi)

\* for idx in range(start, stop, -1): the first idx whose character is one
RECURSIVE FirstBorderDown(_, _, _)
FirstBorderDown(line, idx, stop) ==
    IF idx <= stop THEN None
    ELSE IF is_vertical_border_char(At(line, idx)) THEN idx
    ELSE FirstBorderDown(line, idx - 1, stop)

\* a forward window one column too wide
ForwardWindowWide(line, left_col) == Min(Len(line), left_col + 17)

\* the end of the forward window of the left-border search (formatter.py:184)
ForwardWindowEnd(line, left_col) == Min(Len(line), left_col + 16)

\* the end (exclusive, going down) of the backward window (formatter.py:189)
BackwardWindowEnd(left_col) == Max(-1, left_col - 12)

\* the left border as _fix_content_line finds it (formatter.py:183-192)
AlignerLeft(line, left_col) ==
    LET fwd == FirstBorderUp(line, left_col, ForwardWindowEnd(line, left_col))
    IN  IF fwd # None THEN fwd
        ELSE FirstBorderDown(line, left_col - 1, BackwardWindowEnd(left_col))

\* the left border as the extension pass of _fix_lines finds it (259-262)
ExtenderLeft(line, left_col) ==
    FirstBorderUp(line, left_col, Min(Len(line), left_col + 16))

\* a right-border loop that takes the later of two borders equally far
\* from the expected column
RECURSIVE RightScanTieLater(_, _, _, _, _)
RightScanTieLater(line, idx, expected_right, right_idx, best_dist) ==
    IF idx >= Len(line) THEN right_idx
    ELSE IF is_vertical_border_char(At(line, idx))
         THEN LET dist == Abs(idx - expected_right)
              IN  IF best_dist = None \/ dist <= best_dist
                  THEN RightScanTieLater(line, idx + 1, expected_right, idx, dist)
                  ELSE right_idx
    ELSE RightScanTieLater(line, idx + 1, expected_right, right_idx, best_dist)

\* the right-border loop (formatter.py:201-208 and 269-276), from idx
RECURSIVE RightScan(_, _, _, _, _)
RightScan(line, idx, expected_right, right_idx, best_dist) ==
    IF idx >= Len(line) THEN right_idx
    ELSE IF is_vertical_border_char(At(line, idx))
         THEN LET dist == Abs(idx - expected_right)
              IN  IF best_dist = None \/ dist < best_dist
                  THEN RightScan(line, idx + 1, expected_right, idx, dist)
                  ELSE IF dist > best_dist THEN right_idx
                  ELSE RightScan(line, idx + 1, expected_right, right_idx, best_dist)
    ELSE RightScan(line, idx + 1, expected_right, right_idx, best_dist)

\* a right search that takes the first vertical border after the left one
RightBorderFirst(line, left_idx, target_width) ==
    FirstBorderUp(line, left_idx + 1, Len(line))

\* the right border for a located left border
RightBorder(line, left_idx, target_width) ==
    RightScan(line, left_idx + 1, left_idx + target_width - 1, None, None)

\* the prefix placed before the fixed box (formatter.py:222-230)
AdjustPrefix(line, left_idx, left_col) ==
    LET prefix == Slice(line, 0, left_idx)
    IN  IF left_idx > left_col THEN Slice(prefix, 0, left_col)
        ELSE IF left_idx < left_col THEN prefix \o Repeat(SP, left_col - left_idx)
        ELSE prefix

\* _fix_content_line(line, box), box given by its top's left_col and width
_fix_content_line(line, left_col, target_width) ==
    IF left_col >= Len(line) THEN line
    ELSE LET left_idx == AlignerLeft(line, left_col)
         IN  IF left_idx = None THEN line
             ELSE LET right_idx == RightBorder(line, left_idx, target_width)
                  IN  IF right_idx = None THEN line
                      ELSE LET inner == _pad_or_trim_to_width(
                                            Slice(line, left_idx + 1, right_idx),
                                            target_width - 2)
                               fixed_box == <<At(line, left_idx)>> \o inner
                                            \o <<At(line, right_idx)>>
                               suffix == Slice(line, right_idx + 1, Len(line))
                           IN  AdjustPrefix(line, left_idx, left_col)
                               \o fixed_box \o suffix

\* an index read by _fix_content_line does not exist: a search loop reaches
\* the end of its window without a border, and the window leaves the line
FixContentLineRaises(line, left_col, target_width) ==
    /\ left_col < Len(line)
    /\ LET hi == ForwardWindowEnd(line, left_col)
           stop == BackwardWindowEnd(left_col)
       IN  /\ FirstBorderUp(line, left_col, hi) = None
           /\ \/ hi > Len(line)
              \/ /\ FirstBorderDown(line, left_col - 1, stop) = None
                 /\ stop + 1 < left_col
                 /\ IndexError(line, stop + 1)

----------------------------------------------------------------------------
(* Border Extender and _fix_lines                                          *)

\* str.expandtabs(4) from column col; NL starts a new line at column 0
RECURSIVE ExpandTabsFrom(_, _)
ExpandTabsFrom(s, col) ==
    IF s = <<>> THEN <<>>
    ELSE IF Head(s) = TAB
         THEN Repeat(SP, 4 - (col % 4)) \o ExpandTabsFrom(Tail(s), 0)
    ELSE IF Head(s) = NL THEN <<NL>> \o ExpandTabsFrom(Tail(s), 0)
    ELSE <<Head(s)>> \o ExpandTabsFrom(Tail(s), col + 1)

expandtabs(s) == ExpandTabsFrom(s, 0)

\* the width one content line needs (formatter.py:252-280); 0 when the line
\* is skipped by a continue
NeededWidth(content_line, left_col, width) ==
    IF left_col >= Len(content_line) THEN 0
    ELSE LET li == ExtenderLeft(content_line, left_col)
         IN  IF li = None THEN 0
             ELSE LET ri == RightBorder(content_line, li, width)
                  IN  IF ri = None THEN 0
                      ELSE _display_width(rstrip(Slice(content_line, li + 1, ri))) + 2

\* max_needed of a box (formatter.py:250-282)
MaxNeeded(lines, top, bottom) ==
    LET needs == {NeededWidth(At(lines, l), top.left_col, top.width) :
                      l \in (top.line_index + 1)..(bottom.line_index - 1)}
    IN  CHOOSE m \in needs \cup {0} : \A n \in needs \cup {0} : n <= m

\* the fill character of a border (formatter.py:290-294)
RECURSIVE FirstFill(_)
FirstFill(s) ==
    IF s = <<>> THEN "-"
    ELSE IF Head(s) \in HORIZONTAL_FILL_CHARS THEN Head(s)
    ELSE FirstFill(Tail(s))

\* the border line with extra fill characters before right_col (295-299)
ExtendedLine(bline, border, extra) ==
    LET fill_char == FirstFill(Slice(bline, border.left_col + 1, border.right_col))
        rc == border.right_col
    IN  Slice(bline, 0, rc) \o Repeat(fill_char, extra) \o Slice(bline, rc, Len(bline))

\* one round of "for border in (box.top, box.bottom)" for the border at index b
ExtendBorder(st, b, extra) ==
    LET border == st.bs[b]
    IN  [st EXCEPT
            !.lines[border.line_index + 1] =
                ExtendedLine(st.lines[border.line_index + 1], border, extra),
            !.bs[b] = [border EXCEPT !.right_col = @ + extra, !.width = @ + extra],
            !.extended = TRUE]

\* Pass 1 for one box (formatter.py:249-302); st = [lines, bs, extended]
ExtendBox(st, box) ==
    LET top == st.bs[box.top]
        max_needed == MaxNeeded(st.lines, top, st.bs[box.bottom])
        extra == max_needed - top.width
    IN  IF max_needed > top.width
        THEN ExtendBorder(ExtendBorder(st, box.top, extra), box.bottom, extra)
        ELSE st

\* Pass 1: for box in boxes, from box k
RECURSIVE ExtendFrom(_, _, _)
ExtendFrom(st, boxes, k) ==
    IF k > Len(boxes) THEN st
    ELSE ExtendFrom(ExtendBox(st, boxes[k]), boxes, k + 1)

ExtensionPass(lines, sb, boxes) ==
    ExtendFrom([lines |-> lines, bs |-> sb, extended |-> FALSE], boxes, 1)

\* bottom.line_index - top.line_index
Span(sb, box) == sb[box.bottom].line_index - sb[box.top].line_index

\* boxes.sort(key=span): stable insertion of box b
RECURSIVE InsertBySpan(_, _, _)
InsertBySpan(sb, sorted, b) ==
    IF sorted = <<>> THEN <<b>>
    ELSE IF Span(sb, b) < Span(sb, sorted[Len(sorted)])
         THEN InsertBySpan(sb, SubSeq(sorted, 1, Len(sorted) - 1), b)
              \o <<sorted[Len(sorted)]>>
         ELSE Append(sorted, b)

RECURSIVE SortBySpan(_, _)
SortBySpan(sb, boxes) ==
    IF boxes = <<>> THEN <<>>
    ELSE InsertBySpan(sb, SortBySpan(sb, SubSeq(boxes, 1, Len(boxes) - 1)),
                      boxes[Len(boxes)])

\* sorted(line_boxes[line_idx], key=(span, top.left_col)): stable insertion
SpanColLess(sb, a, b) ==
    \/ Span(sb, a) < Span(sb, b)
    \/ Span(sb, a) = Span(sb, b) /\ sb[a.top].left_col < sb[b.top].left_col

RECURSIVE InsertBySpanCol(_, _, _)
InsertBySpanCol(sb, sorted, b) ==
    IF sorted = <<>> THEN <<b>>
    ELSE IF SpanColLess(sb, b, sorted[Len(sorted)])
         THEN InsertBySpanCol(sb, SubSeq(sorted, 1, Len(sorted) - 1), b)
              \o <<sorted[Len(sorted)]>>
         ELSE Append(sorted, b)

RECURSIVE SortBySpanCol(_, _)
SortBySpanCol(sb, boxes) ==
    IF boxes = <<>> THEN <<>>
    ELSE InsertBySpanCol(sb, SortBySpanCol(sb, SubSeq(boxes, 1, Len(boxes) - 1)),
                         boxes[Len(boxes)])

\* whether line_idx lies strictly between the borders of the box
Spans(sb, box, line_idx) ==
    sb[box.top].line_index < line_idx /\ line_idx < sb[box.bottom].line_index

\* line_boxes[line_idx]: the boxes of the span-sorted list that span the line
RECURSIVE SelectSpanning(_, _, _)
SelectSpanning(sb, boxes, line_idx) ==
    IF boxes = <<>> THEN <<>>
    ELSE (IF Spans(sb, Head(boxes), line_idx) THEN <<Head(boxes)>> ELSE <<>>)
         \o SelectSpanning(sb, Tail(boxes), line_idx)

\* a mapping that gives every line every box, spanning it or not
LineBoxesEverywhere(sb, boxes, line_idx) ==
    SortBySpanCol(sb, SortBySpan(sb, boxes))

line_boxes(sb, boxes, line_idx) ==
    SortBySpanCol(sb, SelectSpanning(sb, SortBySpan(sb, boxes), line_idx))

\* the inner loop of Pass 2 for one line: [line, raised]
RECURSIVE FixLineFrom(_, _, _, _)
FixLineFrom(acc, sb, lboxes, k) ==
    IF k > Len(lboxes) THEN acc
    ELSE LET top == sb[lboxes[k].top]
         IN  FixLineFrom(
                 [line |-> _fix_content_line(acc.line, top.left_col, top.width),
                  raised |-> acc.raised
                      \/ FixContentLineRaises(acc.line, top.left_col, top.width)],
                 sb, lboxes, k + 1)

\* Pass 2 (formatter.py:308-332): every line with the boxes that span it
AlignPass(lines, sb, boxes) ==
    [i \in 1..Len(lines) |->
        FixLineFrom([line |-> lines[i], raised |-> FALSE], sb,
                    line_boxes(sb, boxes, i - 1), 1)]

\* the for loop of _fix_lines from iteration it, on tab-expanded lines:
\* [lines, raised, aligned]; aligned says that Pass 2 produced the result
RECURSIVE FixLinesFrom(_, _, _)
FixLinesFrom(lines, it, err) ==
    IF it >= 2 THEN [lines |-> lines, raised |-> err, aligned |-> FALSE]
    ELSE LET sb == SortedBorders(lines)
             m == MatchFrom(sb, lines, 1, {}, {}, <<>>, FALSE)
             boxes == m.boxes
             e == err \/ m.raised
         IN  IF boxes = <<>> THEN [lines |-> lines, raised |-> e, aligned |-> FALSE]
             ELSE LET st == ExtensionPass(lines, sb, boxes)
                  IN  IF st.extended THEN FixLinesFrom(st.lines, it + 1, e)
                      ELSE LET fixed == AlignPass(lines, sb, boxes)
                           IN  [lines |-> [i \in 1..Len(lines) |-> fixed[i].line],
                                raised |-> e \/ \E i \in 1..Len(lines) : fixed[i].raised,
                                aligned |-> TRUE]

FixLinesRun(lines) ==
    FixLinesFrom([i \in 1..Len(lines) |-> expandtabs(lines[i])], 0, FALSE)

\* _fix_lines(lines)
_fix_lines(lines) == FixLinesRun(lines).lines

----------------------------------------------------------------------------
(* fix_ascii_art and the Region Selector                                   *)

\* chars.py: normalize_string
RECURSIVE normalize_string(_)
normalize_string(s) ==
    IF s = <<>> THEN <<>>
    ELSE NORMALIZATION_MAP(Head(s)) \o normalize_string(Tail(s))

\* a split that drops a last empty line, as str.splitlines does
SplitDroppingLast(s) ==
    LET n == Cardinality({k \in 1..Len(s) : s[k] = NL}) + 1
        first == [k \in 1..n |->
                    CHOOSE a \in 1..(Len(s) + 1) :
                        Cardinality({m \in 1..(a - 1) : s[m] = NL}) = k - 1
                        /\ (a = 1 \/ s[a - 1] = NL)]
        lines == [k \in 1..n |->
                    SubSeq(s, first[k],
                           IF k = n THEN Len(s) ELSE first[k + 1] - 2)]
    IN  IF lines[n] = <<>> THEN SubSeq(lines, 1, n - 1) ELSE lines

\* text.split("\n"): the lines of s, the current line being cur
RECURSIVE SplitFrom(_, _)
SplitFrom(s, cur) ==
    IF s = <<>> THEN <<cur>>
    ELSE IF Head(s) = NL THEN <<cur>> \o SplitFrom(Tail(s), <<>>)
    ELSE SplitFrom(Tail(s), Append(cur, Head(s)))

split(s) == SplitFrom(s, <<>>)

\* "\n".join(lines)
RECURSIVE join(_)
join(lines) ==
    IF lines = <<>> THEN <<>>
    ELSE IF Len(lines) = 1 THEN lines[1]
    ELSE lines[1] \o <<NL>> \o join(Tail(lines))

\* _has_box_chars
_has_box_chars(line) ==
    \E k \in 1..Len(line) :
        \/ line[k] \in CORNER_CHARS
        \/ line[k] \in HORIZONTAL_FILL_CHARS
        \/ is_vertical_border_char(line[k])

\* str.startswith
startswith(s, p) == Len(s) >= Len(p) /\ SubSeq(s, 1, Len(p)) = p

\* fence_marker = None
NoMarker == <<>>

\* the fence marker a line opens, or NoMarker (formatter.py:378-383)
FenceMarkerOf(line) ==
    LET stripped == lstrip(line)
    IN  IF startswith(stripped, <<BACKTICK, BACKTICK, BACKTICK>>) THEN <<BACKTICK, BACKTICK, BACKTICK>>
        ELSE IF startswith(stripped, <<TILDE, TILDE, TILDE>>)
             THEN <<TILDE, TILDE, TILDE>>
        ELSE NoMarker

\* an inner loop that lets a line of either marker close the fence
RECURSIVE FenceCloseAnyMarker(_, _, _)
FenceCloseAnyMarker(lines, i, fence_marker) ==
    IF i < Len(lines) /\ FenceMarkerOf(At(lines, i)) = NoMarker
    THEN FenceCloseAnyMarker(lines, i + 1, fence_marker)
    ELSE i

\* the inner while loop (formatter.py:387-388): the first line from i that
\* starts with the marker, or len(lines)
RECURSIVE FenceClose(_, _, _)
FenceClose(lines, i, fence_marker) ==
    IF i < Len(lines) /\ ~ startswith(lstrip(At(lines, i)), fence_marker)
    THEN FenceClose(lines, i + 1, fence_marker)
    ELSE i

\* the first pass (formatter.py:376-406) from line i: the fence regions, as
\* pairs <<start, end>> of line indexes
RECURSIVE FenceRegionsFrom(_, _)
FenceRegionsFrom(lines, i) ==
    IF i >= Len(lines) THEN <<>>
    ELSE LET fence_marker == FenceMarkerOf(At(lines, i))
         IN  IF fence_marker = NoMarker THEN FenceRegionsFrom(lines, i + 1)
             ELSE LET fence_start == i
                      c == FenceClose(lines, i + 1, fence_marker)
                      closed == c < Len(lines)
                      fence_end == IF closed THEN c ELSE Len(lines) - 1
                      fence_content ==
                          IF closed THEN Slice(lines, fence_start + 1, fence_end)
                          ELSE Slice(lines, fence_start + 1, fence_end + 1)
                      region ==
                          IF \E k \in 1..Len(fence_content) :
                                 _has_box_chars(fence_content[k])
                          THEN IF closed
                               THEN << <<fence_start + 1, fence_end - 1>> >>
                               ELSE << <<fence_start + 1, fence_end>> >>
                          ELSE <<>>
                  IN  region \o FenceRegionsFrom(lines, fence_end + 1)

fence_regions(lines) == FenceRegionsFrom(lines, 0)

\* fenced_lines (formatter.py:409-411)
fenced_lines(lines) ==
    LET fr == fence_regions(lines)
    IN  {l \in 0..(Len(lines) - 1) :
            \E k \in 1..Len(fr) : fr[k][1] <= l /\ l <= fr[k][2]}

\* unfenced_lines (formatter.py:414-417), in increasing order
RECURSIVE UnfencedFrom(_, _, _)
UnfencedFrom(lines, fenced, i) ==
    IF i >= Len(lines) THEN <<>>
    ELSE (IF i \notin fenced /\ _has_box_chars(At(lines, i)) THEN <<i>> ELSE <<>>)
         \o UnfencedFrom(lines, fenced, i + 1)

unfenced_lines(lines) == UnfencedFrom(lines, fenced_lines(lines), 0)

\* the number of lines a gap may span (formatter.py:423)
AutoGap == 3

\* a second pass that bridges one more line
RECURSIVE AutoFromWide(_, _, _)
AutoFromWide(rest, start, end) ==
    IF rest = <<>> THEN << <<start, end>> >>
    ELSE IF Head(rest) - end <= AutoGap + 1
         THEN AutoFromWide(Tail(rest), start, Head(rest))
    ELSE << <<start, end>> >> \o AutoFromWide(Tail(rest), Head(rest), Head(rest))

\* the loop of the second pass (formatter.py:422-429) over the rest of
\* unfenced_lines, with the current region start..end
RECURSIVE AutoFrom(_, _, _)
AutoFrom(rest, start, end) ==
    IF rest = <<>> THEN << <<start, end>> >>
    ELSE IF Head(rest) - end <= AutoGap THEN AutoFrom(Tail(rest), start, Head(rest))
    ELSE << <<start, end>> >> \o AutoFrom(Tail(rest), Head(rest), Head(rest))

auto_regions(lines) ==
    LET u == unfenced_lines(lines)
    IN  IF u = <<>> THEN <<>> ELSE AutoFrom(Tail(u), u[1], u[1])

all_regions(lines) == fence_regions(lines) \o auto_regions(lines)

\* a reassembly that assigns to lines[region_start : region_end]
ReplaceSliceShort(lines, region_start, region_end, fixed) ==
    Slice(lines, 0, region_start) \o fixed
    \o Slice(lines, region_end, Len(lines))

\* lines[region_start : region_end + 1] = fixed
ReplaceSlice(lines, region_start, region_end, fixed) ==
    Slice(lines, 0, region_start) \o fixed
    \o Slice(lines, region_end + 1, Len(lines))

\* the loop over all_regions (formatter.py:433-436) from region k:
\* [lines, raised]
RECURSIVE FixRegionsFrom(_, _, _)
FixRegionsFrom(acc, regions, k) ==
    IF k > Len(regions) THEN acc
    ELSE LET region_start == regions[k][1]
             region_end == regions[k][2]
             r == FixLinesRun(Slice(acc.lines, region_start, region_end + 1))
         IN  FixRegionsFrom(
                 [lines |-> ReplaceSlice(acc.lines, region_start, region_end, r.lines),
                  raised |-> acc.raised \/ r.raised],
                 regions, k + 1)

\* the text after "if normalize" and expandtabs (formatter.py:357-361)
Prepared(t, norm) == expandtabs(IF norm THEN normalize_string(t) ELSE t)

\* one call of fix_ascii_art: [lines, raised]
FixRun(t, norm, md) ==
    LET lines == split(Prepared(t, norm))
    IN  IF ~ md
        THEN LET r == FixLinesRun(lines)
             IN  [lines |-> r.lines, raised |-> r.raised]
        ELSE FixRegionsFrom([lines |-> lines, raised |-> FALSE],
                            all_regions(lines), 1)

\* fix_ascii_art(text, normalize, markdown)
fix_ascii_art(t, norm, md) == join(FixRun(t, norm, md).lines)

----------------------------------------------------------------------------
(* The state machine: a client applies fix_ascii_art to a document, and    *)
(* again to the result.                                                    *)

\* the most calls of fix_ascii_art on one document
MaxCalls == 2

\* the sequences of at most n elements of S
RECURSIVE SeqsUpTo(_, _)
SeqsUpTo(S, n) ==
    IF n = 0 THEN {<<>>}
    ELSE LET shorter == SeqsUpTo(S, n - 1)
         IN  shorter \cup {Append(d, x) : d \in {e \in shorter : Len(e) = n - 1},
                                          x \in S}

\* Diagrams: every document of at most MaxLines lines of Pool.  The lines
\* are borders (one box, two adjacent boxes), content lines with one, two
\* and three cells, a content line with text before its left border, and
\* the empty line (a document that ends with it ends with a newline).
Pool ==
    {<<"+", "-", "+">>,
     <<"+", "-", "+", "+", "-", "+">>,
     <<"|", "a", "a", "|">>,
     <<"|", "|", "a", "a", "|">>,
     <<"a", "|", "a", "|">>,
     <<"U2502", "a", "a", "U2502", "U2502", "a", "a", "U2502">>,
     <<>>}

MaxLines == 4

Documents == {join(d) : d \in SeqsUpTo(Pool, MaxLines) \ {<<>>}}

\* Markdown documents: fence delimiters, prose with and without a tab,
\* table rows, and a box whose content is wider than its border.
MarkdownPool ==
    {<<BACKTICK, BACKTICK, BACKTICK>>,
     <<TAB, "a">>,
     <<"a">>,
     <<"|", "a", "|", "a", "|">>,
     <<"|", "-", "|", "-", "|">>,
     <<"+", "-", "+">>,
     <<"|", "a", "a", "|">>,
     <<>>}

MaxMarkdownLines == 4

MarkdownDocuments ==
    {join(d) : d \in SeqsUpTo(MarkdownPool, MaxMarkdownLines) \ {<<>>}}

\* Single boxes: a top border of width w after an indent, at most MaxContent
\* content lines, and the same border as bottom.  A content line is the
\* text before the left border, a border, an interior, a border and a suffix.
MaxWidth == 4
MaxContent == 2

Interiors ==
    {<<>>, <<"a">>, <<"a", "a">>, <<"a", SP>>, <<SP, "a">>,
     <<"a", SP, SP>>, <<"a", "a", "a">>, <<WIDE>>, <<"a", NBSP>>}

Prefixes == {<<>>, <<SP>>, <<"a">>}

\* the interiors that are followed by text after the right border
Followed == {<<"a">>, <<"a", SP, SP>>, <<"a", "a", "a">>}

Suffix == <<SP, "a">>

BoxBorder(indent, w) == Repeat(SP, indent) \o <<"+">> \o Repeat("-", w - 2) \o <<"+">>

BoxContent(prefix) ==
    {prefix \o <<"|">> \o inner \o <<"|">> : inner \in Interiors}
    \cup {prefix \o <<"|">> \o inner \o <<"|">> \o Suffix : inner \in Followed}

BoxDocumentsAt(prefix) ==
    {join(<<BoxBorder(Len(prefix), w)>> \o c \o <<BoxBorder(Len(prefix), w)>>) :
         w \in 3..MaxWidth,
         c \in SeqsUpTo(BoxContent(prefix), MaxContent) \ {<<>>}}

BoxDocuments == UNION {BoxDocumentsAt(prefix) : prefix \in Prefixes}

Init ==
    /\ text \in Documents
    /\ prev = <<>>
    /\ normalize \in BOOLEAN
    /\ markdown \in BOOLEAN
    /\ calls = 0
    /\ raised = FALSE
    /\ unit = NoUnit

\* result = fix_ascii_art(text, normalize=normalize, markdown=markdown)
Fix ==
    /\ calls < MaxCalls
    /\ ~ raised
    /\ LET r == FixRun(text, normalize, markdown)
       IN  /\ raised' = r.raised
           /\ text' = IF r.raised THEN text ELSE join(r.lines)
    /\ prev' = text
    /\ calls' = calls + 1
    /\ UNCHANGED <<normalize, markdown, unit>>

Next == Fix

Spec == Init /\ [][Next]_vars

\* the markdown documents, normalize off
InitMarkdown ==
    /\ text \in MarkdownDocuments
    /\ prev = <<>>
    /\ normalize = FALSE
    /\ markdown \in BOOLEAN
    /\ calls = 0
    /\ raised = FALSE
    /\ unit = NoUnit

SpecMarkdown == InitMarkdown /\ [][Next]_vars

\* the single boxes, as plain text
InitBox ==
    /\ text \in BoxDocuments
    /\ prev = <<>>
    /\ normalize = FALSE
    /\ markdown = FALSE
    /\ calls = 0
    /\ raised = FALSE
    /\ unit = NoUnit

SpecBox == InitBox /\ [][Next]_vars

----------------------------------------------------------------------------
(* Notions the properties are stated with                                  *)

\* the lines of the argument as the passes see them, and of the result
InLines == split(Prepared(prev, normalize))
OutLines == split(text)

\* a call has returned
Returned == calls >= 1 /\ ~ raised

\* the matched boxes of a list of lines, as records of their two borders
BoxesOf(lines) ==
    LET sb == SortedBorders(lines)
        boxes == _match_boxes(sb, lines)
    IN  {[top |-> sb[boxes[k].top], bottom |-> sb[boxes[k].bottom]] :
             k \in 1..Len(boxes)}

\* the indexes of the lines strictly between the borders of a box
Inside(box) == (box.top.line_index + 1)..(box.bottom.line_index - 1)

\* the columns of the vertical-border characters of a line
BorderColumns(line) == {c \in 0..(Len(line) - 1) : At(line, c) \in {"|", "U2502"}}

\* the characters of a line that are neither spaces nor box-drawing characters
Payload(line) == SelectSeq(line, LAMBDA ch : ch \in {"a", WIDE})

----------------------------------------------------------------------------
(* C1: Idempotence.  A second call of fix_ascii_art, with the same flags,  *)
(* on the result of a first call returns that result unchanged.            *)
C1_Idempotent == (calls = 2 /\ ~ raised) => text = prev

(* C2: Width invariant.  After a call, for every matched box of the result *)
(* every line strictly between its borders has a vertical-border character *)
(* at exactly left_col and at exactly left_col + width - 1.  Stated for the*)
(* lines that start the box with a border at left_col and hold a later     *)
(* border and no wide character: the lines the aligner can place.          *)
C2_WidthInvariant ==
    (calls = 1 /\ ~ raised /\ ~ markdown) =>
        \A box \in BoxesOf(OutLines) : \A l \in Inside(box) :
            LET line == At(OutLines, l)
                cols == BorderColumns(line)
            IN  (/\ box.top.left_col \in cols
                 /\ \E c \in cols : c > box.top.left_col
                 /\ \A k \in 1..Len(line) : line[k] # WIDE)
                => (box.top.left_col + box.top.width - 1) \in cols

(* C3: Content preservation.  Every non-space, non-border character of a   *)
(* content line of the input (a line strictly between the borders of a     *)
(* matched box) is still present, in the same order, in the same line of   *)
(* the output.                                                             *)
C3_ContentPreserved ==
    (calls = 1 /\ ~ raised /\ ~ normalize /\ ~ markdown) =>
        \A box \in BoxesOf(InLines) : \A l \in Inside(box) :
            Payload(At(OutLines, l)) = Payload(At(InLines, l))

(* C4: No-op on borderless text.  As claimed: a text with no corner         *)
(* character, fixed with normalize off, is returned exactly as given, in   *)
(* plain and in markdown mode, tabs included.                              *)
NoCorner(t) == \A k \in 1..Len(t) : t[k] \notin CORNER_CHARS

C4_BorderlessUnchanged ==
    (calls = 1 /\ ~ raised /\ ~ normalize /\ NoCorner(prev)) => text = prev

(* C4, amended: a text with no corner character, fixed with normalize off, *)
(* is returned exactly as given, in plain and in markdown mode, if it has  *)
(* no tab character; with markdown off, a text with tab characters is      *)
(* returned with every tab replaced by the spaces up to the next multiple  *)
(* of 4 columns and otherwise unchanged.                                   *)
NoTab(t) == \A k \in 1..Len(t) : t[k] # TAB

C4_BorderlessTabExpanded ==
    (calls = 1 /\ ~ normalize /\ NoCorner(prev)) =>
        /\ ~ raised
        /\ NoTab(prev) => text = prev
        /\ ~ markdown => text = expandtabs(prev)

\* a borderless text with bars, dashes and a tab has been fixed in plain mode
C4_Witness ==
    /\ calls = 1 /\ ~ markdown /\ ~ normalize /\ NoCorner(prev)
    /\ \E k \in 1..Len(prev) : prev[k] = TAB
    /\ \E k \in 1..Len(prev) : prev[k] = "|"
    /\ \E k \in 1..Len(prev) : prev[k] = "-"
    /\ text # prev

(* C5: Line structure.  The result of a call has as many newline-separated *)
(* lines as its argument and ends with a newline exactly if the argument   *)
(* does.                                                                   *)
NewlineCount(t) == Cardinality({k \in 1..Len(t) : t[k] = NL})
EndsWithNewline(t) == t # <<>> /\ t[Len(t)] = NL

C5_LineStructure ==
    Returned =>
        /\ NewlineCount(text) = NewlineCount(prev)
        /\ EndsWithNewline(text) <=> EndsWithNewline(prev)

\* a markdown call has extended and aligned a box of a text that ends with a
\* newline
C5_Witness ==
    /\ calls = 1 /\ ~ raised /\ markdown
    /\ EndsWithNewline(prev)
    /\ Len(text) > Len(prev)
    /\ all_regions(InLines) # <<>>

(* C6: Markdown pass-through.  In markdown mode with normalize off, every  *)
(* line outside all selected regions is the same in the result as in the   *)
(* argument, tabs included.                                                *)
InRegion(regions, l) ==
    \E k \in 1..Len(regions) : regions[k][1] <= l /\ l <= regions[k][2]

C6_MarkdownPassThrough ==
    (calls = 1 /\ ~ raised /\ markdown /\ ~ normalize) =>
        \A l \in 0..(Len(OutLines) - 1) :
            ~ InRegion(all_regions(InLines), l)
                => At(OutLines, l) = At(split(prev), l)

(* C7: Markdown table protection.  In markdown mode, a table row (a line   *)
(* of cells between vertical bars, or a separator row of dashes between    *)
(* vertical bars) in a selected region whose lines hold no corner          *)
(* character is the same in the result as in the argument.                 *)
TableChars == {"|", "-", "a", SP}

IsTableRow(line) ==
    /\ Len(line) >= 2
    /\ line[1] = "|" /\ line[Len(line)] = "|"
    /\ \A k \in 1..Len(line) : line[k] \in TableChars

\* the lines of region k hold no character outside the table rows' alphabet
CornerFreeRegion(lines, region) ==
    \A l \in region[1]..region[2] :
        \A k \in 1..Len(At(lines, l)) : At(lines, l)[k] \in TableChars

C7_TableProtected ==
    (calls = 1 /\ markdown) =>
        /\ ~ raised
        /\ LET lines == split(prev)
               regions == all_regions(InLines)
           IN  \A k \in 1..Len(regions) :
                   CornerFreeRegion(lines, regions[k]) =>
                       \A l \in regions[k][1]..regions[k][2] :
                           IsTableRow(At(lines, l)) =>
                               At(OutLines, l) = At(lines, l)

\* a region of two table rows around a separator row has been fixed
C7_Witness ==
    /\ calls = 1 /\ markdown
    /\ \E k \in 1..Len(all_regions(InLines)) :
           LET r == all_regions(InLines)[k]
           IN  /\ CornerFreeRegion(split(prev), r)
               /\ r[2] - r[1] = 2
               /\ \E c \in 1..Len(At(InLines, r[1] + 1)) :
                      At(InLines, r[1] + 1)[c] = "-"
               /\ \A l \in r[1]..r[2] : IsTableRow(At(InLines, l))

(* C8: The core never fails.  No call of fix_ascii_art reads an index that *)
(* does not exist, whatever the text and the flags.                        *)
C8_NeverRaises == ~ raised

\* a call has returned on a text in which a border that closed a box is
\* followed by a line shorter than the border's left_col, and in which two
\* boxes of one border line were extended
C8_Witness ==
    /\ calls = 1 /\ ~ raised
    /\ \E box \in BoxesOf(InLines) :
           /\ box.bottom.left_col > 0
           /\ box.bottom.line_index + 1 < Len(InLines)
           /\ Len(At(InLines, box.bottom.line_index + 1)) <= box.bottom.left_col
    /\ Len(At(OutLines, 0)) >= Len(At(InLines, 0)) + 2

(* ------------------------------------------------------------------------ *)
(* A document of one box, taken apart                                      *)
(* ------------------------------------------------------------------------ *)

\* the 0-based column of the first character of line that is not a space
IndentOf(line) ==
    IF \E k \in 1..Len(line) : line[k] # SP
    THEN (CHOOSE k \in 1..Len(line) :
              line[k] # SP /\ \A m \in 1..(k - 1) : line[m] = SP) - 1
    ELSE Len(line)

\* the columns right of col at which line has a vertical border
LaterBorders(line, col) == {c \in BorderColumns(line) : c > col}

\* lines are a border, one or more content lines and the same border again;
\* every content line has a border at the box's left_col and one later border
SingleBox(lines) ==
    /\ Len(lines) >= 3
    /\ LET top == lines[1]
           left_col == IndentOf(top)
           width == Len(top) - left_col
       IN  /\ width >= 3
           /\ top = BoxBorder(left_col, width)
           /\ lines[Len(lines)] = top
           /\ \A l \in 2..(Len(lines) - 1) :
                  /\ left_col \in BorderColumns(lines[l])
                  /\ Cardinality(LaterBorders(lines[l], left_col)) = 1

BoxLeftCol(lines) == IndentOf(lines[1])
BoxWidth(lines) == Len(lines[1]) - IndentOf(lines[1])
RightCol(line, left_col) == CHOOSE c \in LaterBorders(line, left_col) : TRUE
InteriorOf(line, left_col) == Slice(line, left_col + 1, RightCol(line, left_col))
PrefixOf(line, left_col) == Slice(line, 0, left_col)
SuffixOf(line, left_col) == Slice(line, RightCol(line, left_col) + 1, Len(line))

\* s with its trailing spaces (U+0020) removed
RECURSIVE StripSpaces(_)
StripSpaces(s) ==
    IF s # <<>> /\ s[Len(s)] = SP
    THEN StripSpaces(SubSeq(s, 1, Len(s) - 1))
    ELSE s

\* the display width a content line asks of its box
AskedWidth(line, left_col) ==
    _display_width(StripSpaces(InteriorOf(line, left_col))) + 2

\* the largest width asked by a content line of the single box
MaxAsked(lines) ==
    LET asked == {AskedWidth(lines[l], BoxLeftCol(lines)) : l \in 2..(Len(lines) - 1)}
    IN  CHOOSE m \in asked : \A a \in asked : a <= m

\* out is the content line inp realigned to a box of the given width
Realigned(out, inp, left_col, width) ==
    /\ left_col \in BorderColumns(out)
    /\ Cardinality(LaterBorders(out, left_col)) = 1
    /\ PrefixOf(out, left_col) = PrefixOf(inp, left_col)
    /\ SuffixOf(out, left_col) = SuffixOf(inp, left_col)
    /\ StripSpaces(InteriorOf(out, left_col)) = StripSpaces(InteriorOf(inp, left_col))
    /\ _display_width(InteriorOf(out, left_col)) = width - 2

(* C9: Border extension of a single box.  For a document of one box whose  *)
(* content lines each have a border at left_col and exactly one later      *)
(* border, and of which some interior, trailing spaces removed, is wider   *)
(* than width - 2: the top and bottom border of the result have the width  *)
(* M, the largest display width of a right-stripped interior plus 2, every *)
(* content line has its two borders M display columns apart, and its       *)
(* interior is the argument's apart from trailing spaces.                  *)
C9_SingleBoxExtended ==
    (calls = 1 /\ SingleBox(InLines) /\ MaxAsked(InLines) > BoxWidth(InLines)) =>
        /\ ~ raised
        /\ Len(OutLines) = Len(InLines)
        /\ LET left_col == BoxLeftCol(InLines)
               M == MaxAsked(InLines)
           IN  /\ OutLines[1] = BoxBorder(left_col, M)
               /\ OutLines[Len(OutLines)] = BoxBorder(left_col, M)
               /\ \A l \in 2..(Len(InLines) - 1) :
                      Realigned(OutLines[l], InLines[l], left_col, M)

(* C10: Alignment of a single box.  For a document of one box of width W   *)
(* whose content lines hold only single-column characters, have a border   *)
(* at left_col and exactly one later border, and whose interiors, trailing *)
(* spaces removed, have at most W - 2 characters: the border lines of the  *)
(* result are the argument's, and every content line is the argument's     *)
(* text before the left border, the border, the interior with trailing     *)
(* spaces added or removed to W - 2 characters, the border and the         *)
(* argument's text after the right border.                                 *)
SingleColumn(lines) ==
    \A l \in 1..Len(lines) : \A k \in 1..Len(lines[l]) : lines[l][k] # WIDE

\* the interior with trailing spaces added or removed to n characters
FitTo(inner, n) ==
    LET stripped == StripSpaces(inner)
    IN  stripped \o Repeat(SP, n - Len(stripped))

C10_SingleBoxAligned ==
    (calls = 1 /\ SingleBox(InLines) /\ SingleColumn(InLines)
        /\ MaxAsked(InLines) <= BoxWidth(InLines)) =>
        /\ ~ raised
        /\ Len(OutLines) = Len(InLines)
        /\ OutLines[1] = InLines[1]
        /\ OutLines[Len(OutLines)] = InLines[Len(InLines)]
        /\ LET left_col == BoxLeftCol(InLines)
               W == BoxWidth(InLines)
           IN  \A l \in 2..(Len(InLines) - 1) :
                   OutLines[l] =
                       PrefixOf(InLines[l], left_col) \o <<"|">>
                       \o FitTo(InteriorOf(InLines[l], left_col), W - 2)
                       \o <<"|">> \o SuffixOf(InLines[l], left_col)

\* one content line has lost trailing spaces and another has gained one
C10_Witness ==
    /\ calls = 1 /\ ~ raised
    /\ SingleBox(InLines) /\ SingleColumn(InLines)
    /\ MaxAsked(InLines) <= BoxWidth(InLines)
    /\ \E l \in 2..(Len(InLines) - 1) : Len(OutLines[l]) < Len(InLines[l])
    /\ \E l \in 2..(Len(InLines) - 1) : Len(OutLines[l]) > Len(InLines[l])

(* ------------------------------------------------------------------------ *)
(* Aligned diagrams                                                        *)
(* ------------------------------------------------------------------------ *)

\* Documents of nested boxes (a box of width 3 inside a box of width 5) and
\* of side-by-side boxes, with content lines that fit their box and content
\* lines that do not, and an arrow line.
MaxAlignedLines == 5

NestedPool ==
    {<<"+", "-", "-", "-", "+">>, <<"|", "+", "-", "+", "|">>,
     <<"|", "|", "a", "|", "|">>, <<"|", SP, "a", SP, "|">>}

SidePool ==
    {<<"+", "-", "+", "+", "-", "+">>, <<"|", "a", "|", "|", "a", "|">>,
     <<"|", "a", SP, "|", "|", "a", "|">>, <<"+", "-", "+">>, <<"a">>}

AlignedDocuments ==
    {join(d) : d \in SeqsUpTo(NestedPool, MaxAlignedLines)
                     \cup SeqsUpTo(SidePool, MaxAlignedLines)}

InitAligned ==
    /\ text \in AlignedDocuments
    /\ prev = <<>>
    /\ normalize = FALSE
    /\ markdown \in BOOLEAN
    /\ calls = 0
    /\ raised = FALSE
    /\ unit = NoUnit

SpecAligned == InitAligned /\ [][Next]_vars

\* the line lists a call hands to the matcher: the whole text, or in markdown
\* mode the lines of each selected region
MatcherInputs(lines, md) ==
    IF md
    THEN {Slice(lines, all_regions(lines)[k][1], all_regions(lines)[k][2] + 1) :
              k \in 1..Len(all_regions(lines))}
    ELSE {lines}

\* line has its borders at the box's two columns and fills the box between
AlignedTo(line, left_col, width) ==
    /\ left_col \in BorderColumns(line)
    /\ (left_col + width - 1) \in BorderColumns(line)
    /\ _display_width(Slice(line, left_col + 1, left_col + width - 1)) = width - 2

\* every line strictly inside a box the matcher forms on lines is aligned to it
AlignedLines(lines) ==
    \A box \in BoxesOf(lines) : \A l \in Inside(box) :
        AlignedTo(At(lines, l), box.top.left_col, box.top.width)

AlreadyAligned(t, md) ==
    \A lines \in MatcherInputs(split(t), md) : AlignedLines(lines)

(* C11: Already-aligned diagrams are fixed points.  A tab-free text in     *)
(* which every line strictly inside a box the matcher forms has vertical   *)
(* borders at left_col and left_col + width - 1 and an interior of display *)
(* width width - 2 is returned unchanged (normalize off).                  *)
C11_AlignedFixedPoint ==
    (calls = 1 /\ ~ normalize /\ NoTab(prev) /\ AlreadyAligned(prev, markdown)) =>
        ~ raised /\ text = prev

\* an aligned box nested in an aligned box has been fixed
C11_WitnessNested ==
    /\ calls = 1 /\ ~ raised /\ ~ markdown
    /\ AlreadyAligned(prev, markdown)
    /\ \E outer \in BoxesOf(split(prev)) : \E inner \in BoxesOf(split(prev)) :
           /\ outer.top.line_index < inner.top.line_index
           /\ inner.bottom.line_index < outer.bottom.line_index
           /\ outer.top.left_col < inner.top.left_col
           /\ Inside(inner) # {}

(* ------------------------------------------------------------------------ *)
(* One content line and one box                                            *)
(* ------------------------------------------------------------------------ *)

\* The aligner and the extender's measurement, each called on its own with
\* a content line and the left_col and width of a box.  The left border of
\* the line is put at, near, at the rims of and outside the two search
\* windows that start at left_col.
MaxTargetWidth == 5

LeftCols == {0, 1, 12, 13}

BorderAt == {0, 1, 2, 12, 13, 16, 17, 28, 29}

ContentInteriors ==
    {<<>>, <<"a">>, <<"a", SP, SP>>, <<"a", "a", "a">>, <<WIDE>>}

\* what follows the interior: nothing, one border, two borders, a border and text
Rests == {<<>>, <<"|">>, <<"|", SP, "|">>, <<"|", "|">>, <<"|", "a">>}

ContentLines ==
    {Repeat(SP, p) \o <<"|">> \o inner \o rest :
         p \in BorderAt, inner \in ContentInteriors, rest \in Rests}
    \cup {<<>>, <<"a">>, Repeat("a", 14), <<"|">> \o Repeat("a", 17) \o <<"|">>}

ContentLineCalls ==
    [fn : {"_fix_content_line", "needed", "locate"}, line : ContentLines,
     left_col : LeftCols, target_width : 3..MaxTargetWidth,
     returned : {FALSE}, result : {<<>>}]

InitContentLine ==
    /\ text = <<>>
    /\ prev = <<>>
    /\ normalize = FALSE
    /\ markdown = FALSE
    /\ calls = 0
    /\ raised = FALSE
    /\ unit \in ContentLineCalls

\* lines[line_idx] = _fix_content_line(lines[line_idx], box)
FixContentLine ==
    /\ unit.fn = "_fix_content_line"
    /\ ~ unit.returned
    /\ unit' = [unit EXCEPT
                   !.returned = TRUE,
                   !.result = _fix_content_line(unit.line, unit.left_col,
                                                unit.target_width)]
    /\ raised' = FixContentLineRaises(unit.line, unit.left_col, unit.target_width)
    /\ UNCHANGED <<text, prev, normalize, markdown, calls>>

\* the extender's measurement of one content line (formatter.py:252-280)
Measure ==
    /\ unit.fn = "needed"
    /\ ~ unit.returned
    /\ unit' = [unit EXCEPT
                   !.returned = TRUE,
                   !.result = NeededWidth(unit.line, unit.left_col,
                                          unit.target_width)]
    /\ UNCHANGED <<text, prev, normalize, markdown, calls, raised>>

\* the pair (left border index, right border index) the aligner uses for a
\* line and a box (formatter.py:177-211); None where it returns before
AlignerPair(line, left_col, target_width) ==
    IF left_col >= Len(line) THEN <<None, None>>
    ELSE LET left_idx == AlignerLeft(line, left_col)
         IN  IF left_idx = None THEN <<None, None>>
             ELSE <<left_idx, RightBorder(line, left_idx, target_width)>>

\* the pair the extension pass uses (formatter.py:253-278); None where it
\* continues before
ExtenderPair(content_line, left_col, width) ==
    IF left_col >= Len(content_line) THEN <<None, None>>
    ELSE LET li == ExtenderLeft(content_line, left_col)
         IN  IF li = None THEN <<None, None>>
             ELSE <<li, RightBorder(content_line, li, width)>>

\* both passes locate the borders of the same line for the same box
Locate ==
    /\ unit.fn = "locate"
    /\ ~ unit.returned
    /\ unit' = [unit EXCEPT
                   !.returned = TRUE,
                   !.result = [aligner |-> AlignerPair(unit.line, unit.left_col,
                                                       unit.target_width),
                               extender |-> ExtenderPair(unit.line, unit.left_col,
                                                         unit.target_width)]]
    /\ UNCHANGED <<text, prev, normalize, markdown, calls, raised>>

NextContentLine == FixContentLine \/ Measure \/ Locate

SpecContentLine == InitContentLine /\ [][NextContentLine]_vars

Aligned == unit.fn = "_fix_content_line" /\ unit.returned
Measured == unit.fn = "needed" /\ unit.returned
Located == unit.fn = "locate" /\ unit.returned

\* line has no vertical border in the columns lo..hi
NoBorderIn(line, lo, hi) == \A c \in BorderColumns(line) : c < lo \/ c > hi

\* line has no vertical border in either search window of left_col
NoLeftBorder(line, left_col) ==
    /\ NoBorderIn(line, left_col, left_col + 15)
    /\ NoBorderIn(line, left_col - 11, left_col - 1)

\* the rightmost border of line is in a search window, and is the first border
\* at or after left_col if it is there: a left border with none after it
LoneLeftBorder(line, left_col) ==
    /\ BorderColumns(line) # {}
    /\ LET last == CHOOSE c \in BorderColumns(line) :
                       \A d \in BorderColumns(line) : d <= c
       IN  /\ left_col - 11 <= last /\ last <= left_col + 15
           /\ last >= left_col => NoBorderIn(line, left_col, last - 1)

(* C12: Lines without a detectable border pass through verbatim.  If a     *)
(* line has no vertical border in columns left_col..left_col + 15 and none *)
(* in columns left_col - 11..left_col - 1, or has a left border and no     *)
(* vertical border after it, the aligner returns the line unchanged and    *)
(* the extender measures nothing on it.                                    *)
C12_Undetectable ==
    (unit.fn # "none" /\ unit.returned
        /\ (NoLeftBorder(unit.line, unit.left_col)
            \/ LoneLeftBorder(unit.line, unit.left_col))) =>
        /\ ~ raised
        /\ unit.fn = "_fix_content_line" => unit.result = unit.line
        /\ unit.fn = "needed" => unit.result = 0

\* the aligner returned a line whose two borders are just right of the
\* forward window
C12_WitnessForward ==
    /\ Aligned
    /\ NoLeftBorder(unit.line, unit.left_col)
    /\ (unit.left_col + 16) \in BorderColumns(unit.line)
    /\ Cardinality(BorderColumns(unit.line)) >= 2

\* the vertical borders of the line after the located left border
Candidates == {c \in BorderColumns(unit.line) : c > unit.result.aligner[1]}

\* ri is the candidate closest to expected, the left one of two equally close
ClosestTo(ri, expected) ==
    IF Candidates = {} THEN ri = None
    ELSE /\ ri \in Candidates
         /\ \A c \in Candidates :
                \/ Abs(ri - expected) < Abs(c - expected)
                \/ Abs(ri - expected) = Abs(c - expected) /\ ri <= c

(* C18 as stated: the right border chosen is the vertical border after the *)
(* located left border closest to left_col + target_width - 1, computed    *)
(* from the box's declared left_col.                                       *)
C18_ClosestToDeclared ==
    (Located /\ unit.result.aligner[1] # None) =>
        ClosestTo(unit.result.aligner[2], unit.left_col + unit.target_width - 1)

(* C18, amended: the right border chosen is the vertical border after the  *)
(* located left border closest to left_idx + target_width - 1, computed    *)
(* from where the left border was found; of two equally close borders the  *)
(* left one is chosen, and no border is chosen only if there is none.      *)
C18_ClosestToFound ==
    (Located /\ unit.result.aligner[1] # None) =>
        ClosestTo(unit.result.aligner[2],
                  unit.result.aligner[1] + unit.target_width - 1)

\* the left border was found right of left_col, and the border chosen is
\* not the closest to the column expected from left_col
C18_WitnessShifted ==
    /\ Located
    /\ unit.result.aligner[1] # None
    /\ unit.result.aligner[1] > unit.left_col
    /\ Cardinality(Candidates) >= 2
    /\ ~ ClosestTo(unit.result.aligner[2], unit.left_col + unit.target_width - 1)

(* C20: The extender locates each content line's interior exactly as the   *)
(* aligner does: for every line and box the pair (left border index, right *)
(* border index) of the extender equals the pair of the aligner, including *)
(* where the left border is found only by the backward search.             *)
C20_SameInterior ==
    Located => unit.result.extender = unit.result.aligner

(* ------------------------------------------------------------------------ *)
(* The box matcher on its own                                              *)
(* ------------------------------------------------------------------------ *)

\* _match_boxes called on the borders of a list of lines: borders of two
\* widths and two left columns, a line of two adjacent borders, a content
\* line and a line with no border at all.
MaxMatchLines == 5

MatchPool ==
    {<<"+", "-", "+">>, <<"+", "-", "-", "+">>, <<SP, "+", "-", "+">>,
     <<"+", "-", "+", "+", "-", "+">>, <<"|", "a", "|">>, <<"a">>}

MatchCalls ==
    [fn : {"_match_boxes"}, lines : SeqsUpTo(MatchPool, MaxMatchLines),
     returned : {FALSE}, result : {<<>>}]

InitMatch ==
    /\ text = <<>>
    /\ prev = <<>>
    /\ normalize = FALSE
    /\ markdown = FALSE
    /\ calls = 0
    /\ raised = FALSE
    /\ unit \in MatchCalls

\* boxes = _match_boxes(_find_borders(lines), lines)
MatchBoxes ==
    /\ unit.fn = "_match_boxes"
    /\ ~ unit.returned
    /\ LET sb == SortedBorders(unit.lines)
       IN  /\ unit' = [unit EXCEPT !.returned = TRUE,
                                   !.result = _match_boxes(sb, unit.lines)]
           /\ raised' = MatchBoxesRaises(sb, unit.lines)
    /\ UNCHANGED <<text, prev, normalize, markdown, calls>>

NextMatch == MatchBoxes

SpecMatch == InitMatch /\ [][NextMatch]_vars

Matched == unit.fn = "_match_boxes" /\ unit.returned

\* the sorted borders of the matcher's call, and the boxes it returned, each
\* a pair of indexes into the sorted borders
MatchedBorders == SortedBorders(unit.lines)
MatchedBoxes == {unit.result[k] : k \in 1..Len(unit.result)}

SameColumnAndWidth(a, b) == a.left_col = b.left_col /\ a.width = b.width

(* C13: Box matcher invariant.  Every BoxRegion returned by _match_boxes   *)
(* has top and bottom of equal left_col and width and its bottom on a      *)
(* lower line than its top; a segment is the top of at most one box and    *)
(* the bottom of at most one box; and two boxes of equal left_col and      *)
(* width share at most a border line, never an interior line.              *)
C13_MatcherInvariant ==
    Matched =>
        LET sb == MatchedBorders
        IN  /\ Cardinality(MatchedBoxes) = Len(unit.result)
            /\ \A b \in MatchedBoxes :
                   /\ SameColumnAndWidth(sb[b.top], sb[b.bottom])
                   /\ sb[b.bottom].line_index > sb[b.top].line_index
            /\ \A b \in MatchedBoxes : \A c \in MatchedBoxes :
                   /\ b.top = c.top => b = c
                   /\ b.bottom = c.bottom => b = c
                   /\ (b # c /\ SameColumnAndWidth(sb[b.top], sb[c.top])
                         /\ sb[b.top].line_index <= sb[c.top].line_index)
                      => sb[b.bottom].line_index <= sb[c.top].line_index

\* two stacked boxes that share a border were returned
C13_WitnessStacked ==
    /\ Matched
    /\ \E b \in MatchedBoxes : \E c \in MatchedBoxes :
           /\ b.bottom = c.top
           /\ MatchedBorders[b.top].line_index + 1 < MatchedBorders[b.bottom].line_index

\* the line directly below a border exists and has a vertical border at the
\* border's left_col
ContentBelow(lines, border) ==
    /\ border.line_index + 1 < Len(lines)
    /\ border.left_col < Len(At(lines, border.line_index + 1))
    /\ At(At(lines, border.line_index + 1), border.left_col)
           \in VERTICAL_BORDER_CHARS

(* C14: Shared-border reuse.  A segment that is the bottom of a box is the *)
(* top of another box only if the line directly below it exists and has a  *)
(* vertical border at exactly its left_col.                                *)
C14_SharedBorderReuse ==
    Matched =>
        /\ ~ raised
        /\ \A b \in MatchedBoxes : \A c \in MatchedBoxes :
               b.bottom = c.top => ContentBelow(unit.lines, MatchedBorders[c.top])

\* a bottom border with no content below it was not reused as a top although
\* a border of its left_col and width follows beyond a gap line
C14_WitnessSkipped ==
    /\ Matched
    /\ \E b \in MatchedBoxes :
           /\ ~ ContentBelow(unit.lines, MatchedBorders[b.bottom])
           /\ \A c \in MatchedBoxes : c.top # b.bottom
           /\ \E k \in 1..Len(MatchedBorders) :
                  /\ SameColumnAndWidth(MatchedBorders[k], MatchedBorders[b.bottom])
                  /\ MatchedBorders[k].line_index
                         > MatchedBorders[b.bottom].line_index + 1

(* C15: Nearest-match pairing.  For every BoxRegion returned, no border    *)
(* segment of the same left_col and width lies on a line strictly between  *)
(* its top and its bottom.                                                 *)
C15_NearestMatch ==
    Matched =>
        \A b \in MatchedBoxes : \A k \in 1..Len(MatchedBorders) :
            ~ /\ SameColumnAndWidth(MatchedBorders[k], MatchedBorders[b.top])
              /\ MatchedBorders[b.top].line_index < MatchedBorders[k].line_index
              /\ MatchedBorders[k].line_index < MatchedBorders[b.bottom].line_index

\* a box was returned whose forward scan passed a border that was already a
\* bottom, and a later border of its left_col and width was left unmatched
C15_WitnessPassed ==
    /\ Matched
    /\ \E b \in MatchedBoxes :
           /\ \E c \in MatchedBoxes : b.top < c.bottom /\ c.bottom < b.bottom
                                      /\ c.top < b.top
           /\ \E k \in 1..Len(MatchedBorders) :
                  /\ k > b.bottom
                  /\ SameColumnAndWidth(MatchedBorders[k], MatchedBorders[b.top])

(* ------------------------------------------------------------------------ *)
(* The border scanner on its own                                           *)
(* ------------------------------------------------------------------------ *)

\* _find_border_segments called on every line of corners, fills and other
\* characters up to a length, and on the two borders +---+---+ and +---++---+
MaxScanLen == 7

RECURSIVE StringsUpTo(_, _)
StringsUpTo(S, n) ==
    IF n = 0 THEN {<<>>}
    ELSE LET shorter == StringsUpTo(S, n - 1)
         IN  shorter \cup {Append(t, ch) : t \in shorter, ch \in S}

TJunctionBorder == <<"+", "-", "-", "-", "+", "-", "-", "-", "+">>

AdjacentBorders == <<"+", "-", "-", "-", "+", "+", "-", "-", "-", "+">>

\* content lines of two adjacent boxes under +---++---+: the line of the
\* test, and lines whose interiors are shorter or longer than their boxes
AdjacentContents ==
    {<<"|", SP, "a", SP, SP, "|", "|", SP, "a", SP, "|">>,
     <<"|", "a", "|", "|", SP, "a", SP, "|">>,
     <<"|", SP, "a", "|", "|", SP, SP, "a", "|">>,
     <<"|", "a", SP, SP, "|", "|", "a", SP, SP, SP, "|">>,
     <<"|", "a", "|", "|", "a", "|">>}

ScanLines ==
    StringsUpTo({"+", "-", "a"}, MaxScanLen) \cup {TJunctionBorder, AdjacentBorders}

ScanCalls ==
    [fn : {"_find_border_segments"}, line : ScanLines,
     returned : {FALSE}, result : {<<>>}]

InitScan ==
    /\ text = <<>>
    /\ prev = <<>>
    /\ normalize = FALSE
    /\ markdown = FALSE
    /\ calls = 0
    /\ raised = FALSE
    /\ unit \in ScanCalls

\* borders.extend(_find_border_segments(line, i))
FindBorderSegments ==
    /\ unit.fn = "_find_border_segments"
    /\ ~ unit.returned
    /\ unit' = [unit EXCEPT !.returned = TRUE,
                            !.result = _find_border_segments(unit.line, 0)]
    /\ UNCHANGED <<text, prev, normalize, markdown, calls, raised>>

NextScan == FindBorderSegments

SpecScan == InitScan /\ [][NextScan]_vars

Scanned == unit.fn = "_find_border_segments" /\ unit.returned

IsCorner(line, c) == c < Len(line) /\ At(line, c) \in CORNER_CHARS
IsFill(line, c) == c < Len(line) /\ At(line, c) \in HORIZONTAL_FILL_CHARS

(* C16: Scanner segment validity.  Every segment returned for a line has   *)
(* 0 <= left_col < right_col < len(line) and width = right_col - left_col  *)
(* + 1 >= 3, corners at left_col and right_col, only fills and corners     *)
(* strictly between and at least one fill there; the segments come in      *)
(* strictly increasing left_col order and two consecutive segments overlap *)
(* in at most the column of a shared corner.                               *)
C16_SegmentValid ==
    Scanned =>
        /\ \A k \in 1..Len(unit.result) :
               LET seg == unit.result[k]
                   between == (seg.left_col + 1)..(seg.right_col - 1)
               IN  /\ 0 <= seg.left_col /\ seg.left_col < seg.right_col
                   /\ seg.right_col < Len(unit.line)
                   /\ seg.width = seg.right_col - seg.left_col + 1
                   /\ seg.width >= 3
                   /\ IsCorner(unit.line, seg.left_col)
                   /\ IsCorner(unit.line, seg.right_col)
                   /\ \A c \in between : IsCorner(unit.line, c) \/ IsFill(unit.line, c)
                   /\ \E c \in between : IsFill(unit.line, c)
        /\ \A k \in 1..(Len(unit.result) - 1) :
               /\ unit.result[k].left_col < unit.result[k + 1].left_col
               /\ unit.result[k].right_col <= unit.result[k + 1].left_col

\* two segments that share a corner were returned, the first with a
\* T-junction inside
C16_WitnessShared ==
    /\ Scanned
    /\ Len(unit.result) = 2
    /\ unit.result[1].right_col = unit.result[2].left_col
    /\ \E c \in (unit.result[1].left_col + 1)..(unit.result[1].right_col - 1) :
           IsCorner(unit.line, c)

\* the column at which a run that starts at corner c ends: the first later
\* corner that no fill follows, with only fills and corners before it;
\* None if there is no such corner
RunEnd(line, c) ==
    LET ends == {e \in (c + 1)..(Len(line) - 1) :
                    /\ IsCorner(line, e)
                    /\ ~ IsFill(line, e + 1)
                    /\ \A m \in (c + 1)..(e - 1) :
                           IsFill(line, m) \/ (IsCorner(line, m) /\ IsFill(line, m + 1))}
    IN  IF ends = {} THEN None ELSE CHOOSE e \in ends : TRUE

\* the segments as sets of column pairs
SegmentsReturned == {<<unit.result[k].left_col, unit.result[k].right_col>> :
                         k \in 1..Len(unit.result)}

(* C17: T-junction versus right corner.  A corner ends the segment exactly *)
(* when no fill character follows it and is scanned through when one does: *)
(* the segments returned are the runs from a corner, outside the inside of *)
(* an earlier segment, to the first later corner that no fill follows.     *)
(* So +---+---+ yields one segment over the whole run, and +---++---+      *)
(* yields two segments, and a content line between two such borders comes  *)
(* out with a vertical border at both columns of each of the two boxes.    *)
C17_TJunction ==
    Scanned =>
        /\ \A c \in 0..(Len(unit.line) - 1) :
               (/\ IsCorner(unit.line, c)
                /\ \A seg \in SegmentsReturned : ~ (seg[1] < c /\ c < seg[2]))
               => (\/ /\ RunEnd(unit.line, c) # None
                      /\ RunEnd(unit.line, c) > c + 1
                      /\ <<c, RunEnd(unit.line, c)>> \in SegmentsReturned
                   \/ /\ (RunEnd(unit.line, c) = None \/ RunEnd(unit.line, c) = c + 1)
                      /\ \A seg \in SegmentsReturned : seg[1] # c)
        /\ \A seg \in SegmentsReturned : RunEnd(unit.line, seg[1]) = seg[2]
        /\ unit.line = TJunctionBorder => SegmentsReturned = {<<0, 8>>}
        /\ unit.line = AdjacentBorders =>
               /\ Cardinality(SegmentsReturned) = 2
               /\ \A content \in AdjacentContents :
                      LET out == _fix_lines(<<unit.line, content, unit.line>>)
                      IN  /\ out[1] = unit.line /\ out[3] = unit.line
                          /\ \A seg \in SegmentsReturned :
                                 /\ seg[2] < Len(out[2])
                                 /\ is_vertical_border_char(At(out[2], seg[1]))
                                 /\ is_vertical_border_char(At(out[2], seg[2]))

\* the scanner returned on +---+---+, and on +---++---+ with the first
\* segment ending at the corner that no fill follows
C17_WitnessJunction ==
    /\ Scanned
    /\ unit.line = TJunctionBorder

C17_WitnessAdjacent ==
    /\ Scanned
    /\ unit.line = AdjacentBorders
    /\ <<0, 4>> \in SegmentsReturned

(* ------------------------------------------------------------------------ *)
(* Pad or trim on its own                                                  *)
(* ------------------------------------------------------------------------ *)

\* _pad_or_trim_to_width called on every interior of a letter, a space, a
\* wide character and a no-break space up to a length, for every target
\* from 1 to one more than that length
MaxPadLen == 4

PadInteriors == StringsUpTo({"a", SP, WIDE, NBSP}, MaxPadLen)

PadCalls ==
    [fn : {"_pad_or_trim_to_width"}, s : PadInteriors,
     target : 1..(MaxPadLen + 1), returned : {FALSE}, result : {<<>>}]

InitPad ==
    /\ text = <<>>
    /\ prev = <<>>
    /\ normalize = FALSE
    /\ markdown = FALSE
    /\ calls = 0
    /\ raised = FALSE
    /\ unit \in PadCalls

\* inner = _pad_or_trim_to_width(inner, target_inner)
PadOrTrim ==
    /\ unit.fn = "_pad_or_trim_to_width"
    /\ ~ unit.returned
    /\ unit' = [unit EXCEPT
                   !.returned = TRUE,
                   !.result = _pad_or_trim_to_width(unit.s, unit.target)]
    /\ UNCHANGED <<text, prev, normalize, markdown, calls, raised>>

NextPad == PadOrTrim

SpecPad == InitPad /\ [][NextPad]_vars

Padded == unit.fn = "_pad_or_trim_to_width" /\ unit.returned

\* the number of columns of s, a wide character counting 2 and any other 1
Columns(s) == Len(s) + Cardinality({k \in 1..Len(s) : s[k] = WIDE})

(* C19: Pad or trim.  For every interior s and target t >= 1, wide         *)
(* characters counting 2 columns and all others 1, the result differs from *)
(* s only by spaces appended to or removed from its end; if s without its  *)
(* trailing spaces is at most t columns wide the result is exactly t       *)
(* columns wide, otherwise the result is s without its trailing spaces.    *)
C19_PadOrTrim ==
    Padded =>
        LET core == StripSpaces(unit.s)
        IN  /\ StripSpaces(unit.result) = core
            /\ IF Columns(core) <= unit.target
               THEN Columns(unit.result) = unit.target
               ELSE unit.result = core

\* an interior with a wide character lost some of its trailing spaces and
\* kept the others
C19_WitnessTrimmed ==
    /\ Padded
    /\ \E k \in 1..Len(unit.s) : unit.s[k] = WIDE
    /\ Len(unit.result) < Len(unit.s)
    /\ unit.result # StripSpaces(unit.s)

(* ------------------------------------------------------------------------ *)
(* The extension pass on its own                                           *)
(* ------------------------------------------------------------------------ *)

\* Pass 1 of _fix_lines run once on the borders and boxes of a list of
\* lines: one box, two stacked boxes that share a border, and two boxes side
\* by side on the same border lines, with content that fits and content
\* that is wider than its box.
MaxExtendLines == 5

ExtendPool ==
    {<<"+", "-", "+">>, <<"|", "a", "a", "|">>, <<"|", "a", "a", "a", "|">>,
     <<"+", "-", "+", SP, SP, SP, "+", "-", "+">>,
     <<"|", "a", "a", "a", "a", "|", SP, "|", "a", "a", "|">>}

ExtendCalls ==
    [fn : {"extension"}, lines : SeqsUpTo(ExtendPool, MaxExtendLines),
     returned : {FALSE}, result : {<<>>}]

InitExtend ==
    /\ text = <<>>
    /\ prev = <<>>
    /\ normalize = FALSE
    /\ markdown = FALSE
    /\ calls = 0
    /\ raised = FALSE
    /\ unit \in ExtendCalls

\* borders, boxes and "for box in boxes" of Pass 1 (formatter.py:241-302)
Extend ==
    /\ unit.fn = "extension"
    /\ ~ unit.returned
    /\ LET sb == SortedBorders(unit.lines)
           boxes == _match_boxes(sb, unit.lines)
       IN  /\ unit' = [unit EXCEPT
                          !.returned = TRUE,
                          !.result = [boxes |-> boxes,
                                      pass |-> ExtensionPass(unit.lines, sb, boxes)]]
           /\ raised' = MatchBoxesRaises(sb, unit.lines)
    /\ UNCHANGED <<text, prev, normalize, markdown, calls>>

NextExtend == Extend

SpecExtend == InitExtend /\ [][NextExtend]_vars

ExtensionDone == unit.fn = "extension" /\ unit.returned /\ ~ raised

\* the borders as recorded before and after the pass, and the lines after it
BordersBefore == SortedBorders(unit.lines)
BordersAfter == unit.result.pass.bs
LinesAfter == unit.result.pass.lines
BoxesExtended ==
    {unit.result.boxes[k] : k \in 1..Len(unit.result.boxes)}

\* both borders of the box grew in the pass
WasExtended(box) ==
    /\ BordersAfter[box.top].width > BordersBefore[box.top].width
    /\ BordersAfter[box.bottom].width > BordersBefore[box.bottom].width

\* the record of a border points at corners of its line, with width - 2 fill
\* or corner characters between them
RecordOnCorners(border) ==
    LET line == At(LinesAfter, border.line_index)
    IN  /\ border.right_col < Len(line)
        /\ border.width = border.right_col - border.left_col + 1
        /\ At(line, border.left_col) \in CORNER_CHARS
        /\ At(line, border.right_col) \in CORNER_CHARS
        /\ \A c \in (border.left_col + 1)..(border.right_col - 1) :
               At(line, c) \in HORIZONTAL_FILL_CHARS \cup CORNER_CHARS

(* C21: Extension keeps borders consistent.  After the extension pass,     *)
(* every box that was extended has top.width = bottom.width = the maximum  *)
(* required width of its content lines, and the recorded left_col and      *)
(* right_col of every segment point at corner characters of its line with  *)
(* the fill of the border between them; also when two boxes on the same    *)
(* border line are extended and when a border shared by two stacked boxes  *)
(* is extended.                                                            *)
C21_ExtensionConsistent ==
    ExtensionDone =>
        /\ \A box \in BoxesExtended :
               WasExtended(box) =>
                   /\ BordersAfter[box.top].width = BordersAfter[box.bottom].width
                   /\ BordersAfter[box.top].width =
                          MaxNeeded(unit.lines, BordersBefore[box.top],
                                    BordersBefore[box.bottom])
        /\ \A k \in 1..Len(BordersAfter) : RecordOnCorners(BordersAfter[k])

(* ------------------------------------------------------------------------ *)
(* The iteration cap of _fix_lines                                         *)
(* ------------------------------------------------------------------------ *)

\* a matched box of lines has a content line that needs more than its width
NeedsExtension(lines) ==
    \E box \in BoxesOf(lines) :
        MaxNeeded(lines, box.top, box.bottom) > box.top.width

(* C22: Convergence within the iteration cap.  When _fix_lines returns,    *)
(* after at most two scan-match-extend passes, re-scanning the returned    *)
(* lines finds no matched box with a content line whose right-stripped     *)
(* interior plus 2 exceeds the box width, and the content-alignment pass   *)
(* has been run on the final boxes.                                        *)
C22_Converged ==
    (calls = 1 /\ ~ raised /\ ~ markdown) =>
        /\ ~ NeedsExtension(OutLines)
        /\ BoxesOf(OutLines) # {} => FixLinesRun(InLines).aligned

(* ------------------------------------------------------------------------ *)
(* Region selection on its own                                             *)
(* ------------------------------------------------------------------------ *)

\* The two passes that select the regions of markdown mode, run on the
\* lines of a document: fence delimiters of both markers, one indented and
\* with an info string, one with a vertical border after the marker, a
\* prose line and a diagram line.
MaxRegionLines == 5

RegionPool ==
    {<<BACKTICK, BACKTICK, BACKTICK>>,
     <<TILDE, TILDE, TILDE>>,
     <<SP, BACKTICK, BACKTICK, BACKTICK, "a">>,
     <<TILDE, TILDE, TILDE, "|">>,
     <<"a">>,
     <<"|", "a", "|">>}

RegionCalls ==
    [fn : {"regions"}, lines : SeqsUpTo(RegionPool, MaxRegionLines),
     returned : {FALSE}, result : {<<>>}]

InitRegions ==
    /\ text = <<>>
    /\ prev = <<>>
    /\ normalize = FALSE
    /\ markdown = TRUE
    /\ calls = 0
    /\ raised = FALSE
    /\ unit \in RegionCalls

\* the first and the second pass of markdown mode (formatter.py:374-429)
FindRegions ==
    /\ unit.fn = "regions"
    /\ ~ unit.returned
    /\ unit' = [unit EXCEPT
                   !.returned = TRUE,
                   !.result = [fence |-> fence_regions(unit.lines),
                               auto |-> auto_regions(unit.lines)]]
    /\ UNCHANGED <<text, prev, normalize, markdown, calls, raised>>

NextRegions == FindRegions

SpecRegions == InitRegions /\ [][NextRegions]_vars

RegionsFound == unit.fn = "regions" /\ unit.returned

FenceRegionsFound == {unit.result.fence[k] : k \in 1..Len(unit.result.fence)}
AutoRegionsFound == {unit.result.auto[k] : k \in 1..Len(unit.result.auto)}

\* the line's left-stripped text starts with three of the marker character
StartsWith(line, ch) ==
    \E k \in 1..Len(line) :
        /\ \A j \in 1..(k - 1) : line[j] \in Whitespace
        /\ k + 2 <= Len(line)
        /\ line[k] = ch /\ line[k + 1] = ch /\ line[k + 2] = ch

IsDelimiter(line) == StartsWith(line, BACKTICK) \/ StartsWith(line, TILDE)

MarkerCharOf(line) == IF StartsWith(line, BACKTICK) THEN BACKTICK ELSE TILDE

\* the line that closes a fence opened at line o: the next line that starts
\* with the marker of line o; len(lines) if there is none
ClosedAt(lines, o) ==
    LET closers == {c \in (o + 1)..(Len(lines) - 1) :
                        StartsWith(At(lines, c), MarkerCharOf(At(lines, o)))}
    IN  IF closers = {} THEN Len(lines)
        ELSE CHOOSE c \in closers : \A d \in closers : c <= d

\* the lines that open a fence: delimiter lines that neither lie in nor close
\* a fence opened before
FenceOpeners(lines) ==
    LET opens[i \in 0..(Len(lines) - 1)] ==
            /\ IsDelimiter(At(lines, i))
            /\ \A j \in 0..(i - 1) : opens[j] => ClosedAt(lines, j) < i
    IN  {i \in 0..(Len(lines) - 1) : opens[i]}

\* the line contains a corner, fill or vertical-border character
IsDiagramLine(line) ==
    \E k \in 1..Len(line) :
        line[k] \in CORNER_CHARS \cup HORIZONTAL_FILL_CHARS \cup VERTICAL_BORDER_CHARS

(* C23: Fenced regions.  A fence is opened by a line whose left-stripped   *)
(* text starts with ``` or ~~~ and closed by the next line whose           *)
(* left-stripped text starts with the marker that opened it; an            *)
(* unterminated fence extends to the last line; the lines strictly inside  *)
(* the fence, never the delimiter lines, form a fix region if and only if  *)
(* one of them contains a corner, fill or vertical-border character.       *)
C23_FencedRegions ==
    RegionsFound =>
        FenceRegionsFound =
            {<<o + 1, ClosedAt(unit.lines, o) - 1>> : o \in
                {p \in FenceOpeners(unit.lines) :
                    \E l \in (p + 1)..(ClosedAt(unit.lines, p) - 1) :
                        IsDiagramLine(At(unit.lines, l))}}

\* a tilde fence with a backtick delimiter and a diagram line inside it was
\* closed by a tilde line and formed a region
C23_WitnessTilde ==
    /\ RegionsFound
    /\ \E r \in FenceRegionsFound :
           /\ r[1] >= 1
           /\ StartsWith(At(unit.lines, r[1] - 1), TILDE)
           /\ r[2] + 1 < Len(unit.lines)
           /\ StartsWith(At(unit.lines, r[2] + 1), TILDE)
           /\ \E l \in r[1]..r[2] : StartsWith(At(unit.lines, l), BACKTICK)

\* an unterminated fence formed a region that ends at the last line
C23_WitnessUnclosed ==
    /\ RegionsFound
    /\ \E r \in FenceRegionsFound :
           /\ r[2] = Len(unit.lines) - 1
           /\ ~ IsDelimiter(At(unit.lines, r[2]))

\* the lines outside the fenced regions found that contain a corner, fill or
\* vertical-border character
DiagramLinesOutside ==
    {l \in 0..(Len(unit.lines) - 1) :
        /\ IsDiagramLine(At(unit.lines, l))
        /\ \A r \in FenceRegionsFound : l < r[1] \/ l > r[2]}

\* a and b are consecutive among the diagram lines outside the fenced regions
ConsecutiveOutside(a, b) ==
    /\ a \in DiagramLinesOutside /\ b \in DiagramLinesOutside /\ a < b
    /\ \A l \in DiagramLinesOutside : l <= a \/ l >= b

AutoRegionOf(l) == CHOOSE r \in AutoRegionsFound : r[1] <= l /\ l <= r[2]

(* C24: Auto-detected regions.  Among the lines outside fenced regions     *)
(* that contain a corner, fill or vertical-border character, two           *)
(* consecutive such lines belong to the same auto region if and only if at *)
(* most two lines lie between them; each auto region is the line range     *)
(* from its first to its last such line, so three or more intervening      *)
(* lines always split the diagram.                                         *)
C24_AutoRegions ==
    RegionsFound =>
        /\ \A l \in DiagramLinesOutside :
               \E r \in AutoRegionsFound : r[1] <= l /\ l <= r[2]
        /\ \A r \in AutoRegionsFound :
               /\ r[1] \in DiagramLinesOutside /\ r[2] \in DiagramLinesOutside
               /\ r[1] <= r[2]
               /\ \A q \in AutoRegionsFound : q = r \/ q[2] < r[1] \/ r[2] < q[1]
        /\ \A a, b \in DiagramLinesOutside :
               ConsecutiveOutside(a, b) =>
                   (AutoRegionOf(a) = AutoRegionOf(b) <=> b - a - 1 <= 2)

\* two diagram lines with two lines between them are in one auto region
C24_WitnessBridged ==
    /\ RegionsFound
    /\ \E a, b \in DiagramLinesOutside :
           /\ ConsecutiveOutside(a, b) /\ b - a - 1 = 2
           /\ AutoRegionOf(a) = AutoRegionOf(b)

\* two diagram lines with three lines between them are in two auto regions
C24_WitnessSplit ==
    /\ RegionsFound
    /\ \E a, b \in DiagramLinesOutside :
           /\ ConsecutiveOutside(a, b) /\ b - a - 1 = 3
           /\ AutoRegionOf(a) # AutoRegionOf(b)

(* ------------------------------------------------------------------------ *)
(* Regions fixed in markdown mode                                          *)
(* ------------------------------------------------------------------------ *)

\* Markdown documents with a box around or across a fence: a border, a
\* content line wider than the border's box, a fence delimiter, a fence
\* delimiter followed by a vertical border, and a prose line.
MaxIsolationLines == 5

IsolationPool ==
    {<<"+", "-", "+">>,
     <<"|", "a", SP, SP, "|">>,
     <<BACKTICK, BACKTICK, BACKTICK>>,
     <<BACKTICK, BACKTICK, BACKTICK, "|">>,
     <<"a">>}

IsolationDocuments ==
    {join(d) : d \in SeqsUpTo(IsolationPool, MaxIsolationLines) \ {<<>>}}

InitIsolation ==
    /\ text \in IsolationDocuments
    /\ prev = <<>>
    /\ normalize = FALSE
    /\ markdown = TRUE
    /\ calls = 0
    /\ raised = FALSE
    /\ unit = NoUnit

SpecIsolation == InitIsolation /\ [][Next]_vars

\* the regions selected in the argument of the call
RegionsSelected ==
    LET regions == all_regions(InLines)
    IN  {regions[k] : k \in 1..Len(regions)}

(* C25: Region isolation.  In markdown mode the selected regions, fenced   *)
(* and auto-detected, are pairwise disjoint line ranges, and each region   *)
(* comes out as _fix_lines returns it for the region's own lines alone, so *)
(* that no border of one region is matched with a border of another and    *)
(* fixing one region changes no line of another; also when a fence         *)
(* delimiter line holds a fill or vertical-border character.               *)
C25_RegionIsolation ==
    (calls = 1 /\ ~ raised /\ markdown) =>
        /\ \A r, q \in RegionsSelected : r = q \/ r[2] < q[1] \/ q[2] < r[1]
        /\ \A r \in RegionsSelected :
               Slice(OutLines, r[1], r[2] + 1) =
                   _fix_lines(Slice(InLines, r[1], r[2] + 1))

(* ------------------------------------------------------------------------ *)
(* The frame of _fix_lines                                                 *)
(* ------------------------------------------------------------------------ *)

\* one scan-match-extend pass on lines: the sorted borders, the boxes and
\* the state after Pass 1
ScanPass(lines) ==
    LET sb == SortedBorders(lines)
        boxes == _match_boxes(sb, lines)
    IN  [sb |-> sb, boxes |-> boxes, pass |-> ExtensionPass(lines, sb, boxes)]

\* the passes that a call of _fix_lines on lines makes: one, or two if the
\* first one extended a border
ScanPasses(lines) ==
    LET first == ScanPass(lines)
    IN  IF first.boxes # <<>> /\ first.pass.extended
        THEN <<first, ScanPass(first.pass.lines)>>
        ELSE <<first>>

\* line l lies strictly between the top and the bottom of a box of pass p
InsideMatched(p, l) ==
    \E k \in 1..Len(p.boxes) :
        /\ p.sb[p.boxes[k].top].line_index < l
        /\ l < p.sb[p.boxes[k].bottom].line_index

\* line l is the border line of a box that pass p extended
OnExtended(p, l) ==
    \E k \in 1..Len(p.sb) :
        /\ p.sb[k].line_index = l
        /\ p.pass.bs[k].width # p.sb[k].width

\* the lines of the argument that no pass has inside a box or on an
\* extended border
FrameLines ==
    LET passes == ScanPasses(InLines)
    IN  {l \in 0..(Len(InLines) - 1) :
            \A n \in 1..Len(passes) :
                ~ InsideMatched(passes[n], l) /\ ~ OnExtended(passes[n], l)}

(* C26: Frame of _fix_lines.  Every line that is not strictly between the  *)
(* top and bottom of a matched box and is not the top or bottom border     *)
(* line of a box that gets extended is the same in the result as the       *)
(* tab-expanded line of the argument: arrow and gap lines between boxes,   *)
(* orphan borders, and the borders of boxes that need no extension.        *)
C26_Frame ==
    (calls = 1 /\ ~ raised /\ ~ markdown) =>
        /\ Len(OutLines) = Len(InLines)
        /\ \A l \in FrameLines : At(OutLines, l) = At(InLines, l)

\* a call changed a line of a box and left alone a line with two vertical
\* borders outside every box
C26_Witness ==
    /\ calls = 1 /\ ~ raised /\ ~ markdown
    /\ OutLines # InLines
    /\ \E l \in FrameLines : Cardinality(BorderColumns(At(InLines, l))) >= 2
    /\ \E l \in FrameLines : At(InLines, l) \in {<<"+", "-", "+">>}

(* ------------------------------------------------------------------------ *)
(* Boxes of the glyph styles, with and without normalization               *)
(* ------------------------------------------------------------------------ *)

\* One box drawn in ASCII, single-line, heavy, rounded and double-line
\* glyphs, with an interior that fits, is too long or is too short.
MaxGlyphFill == 3

GlyphStyles ==
    {[tl |-> "+", tr |-> "+", bl |-> "+", br |-> "+", h |-> "-", v |-> "|"],
     [tl |-> "U250C", tr |-> "U2510", bl |-> "U2514", br |-> "U2518",
      h |-> "U2500", v |-> "U2502"],
     [tl |-> "U250F", tr |-> "U2513", bl |-> "U2517", br |-> "U251B",
      h |-> "U2501", v |-> "U2503"],
     [tl |-> "U256D", tr |-> "U256E", bl |-> "U2570", br |-> "U256F",
      h |-> "U2500", v |-> "U2502"],
     [tl |-> "U2554", tr |-> "U2557", bl |-> "U255A", br |-> "U255D",
      h |-> "U2550", v |-> "U2551"]}

GlyphInteriors ==
    {<<"a">>, <<"a", SP>>, <<"a", SP, SP>>, <<"a", SP, SP, SP>>, <<"a", "a">>,
     <<SP, "a", SP, SP, SP>>}

GlyphBox(g, n, inner) ==
    join(<< <<g.tl>> \o Repeat(g.h, n) \o <<g.tr>>,
            <<g.v>> \o inner \o <<g.v>>,
            <<g.bl>> \o Repeat(g.h, n) \o <<g.br>> >>)

GlyphDocuments ==
    {GlyphBox(g, n, inner) :
         g \in GlyphStyles, n \in 1..MaxGlyphFill, inner \in GlyphInteriors}

InitGlyphs ==
    /\ text \in GlyphDocuments
    /\ prev = <<>>
    /\ normalize \in BOOLEAN
    /\ markdown = FALSE
    /\ calls = 0
    /\ raised = FALSE
    /\ unit = NoUnit

SpecGlyphs == InitGlyphs /\ [][Next]_vars

\* the table maps ch to one character of the class S whenever ch is in S
KeepsClass(ch, S) ==
    ch \in S => \E c \in S : NORMALIZATION_MAP(ch) = <<c>>

(* C27: Normalization preserves the character class used by structural     *)
(* analysis.  The table maps every corner of the argument to a corner,     *)
(* every horizontal fill to a horizontal fill and every vertical border to *)
(* a vertical border, so every box that is detected with normalize=false   *)
(* (single-line, heavy, rounded or double-line glyphs) is also detected    *)
(* with normalize=true and its content lines are aligned to its width.     *)
C27_NormalizeKeepsClass ==
    (calls = 1 /\ ~ raised /\ normalize /\ BoxesOf(split(prev)) # {}) =>
        /\ \A k \in 1..Len(prev) :
               /\ KeepsClass(prev[k], CORNER_CHARS)
               /\ KeepsClass(prev[k], HORIZONTAL_FILL_CHARS)
               /\ KeepsClass(prev[k], VERTICAL_BORDER_CHARS)
        /\ BoxesOf(OutLines) # {}
        /\ AlignedLines(OutLines)

====
